---- MODULE Spec2Model ----
(***************************************************************************)
(* One Streamlit session of src/app.py.  The script is re-executed from    *)
(* top to bottom on every rerun; the st.cache_data caches and the global   *)
(* numpy generator live in the process and survive between reruns.         *)
(*                                                                         *)
(* Numbers are fixed point: fractions (rates, returns, mu, sigma, growth   *)
(* factors) are counted in 1/Scale, prices in whole dollars, percentages   *)
(* are exact rationals [num, den].                                         *)
(***************************************************************************)
EXTENDS Integers, Sequences, FiniteSets, TLC

\* ---------------------------------------------------------------- bounds
MaxRows == 2
MaxDaysSim == 2
MaxNumSim == 2
MaxLookback == 3
RngMod == 8
TickStep == 30

\* ------------------------------------------------------ program constants
\* rates and the threshold are counted in 1/Scale; the expiry widget is left
\* at its default of 30 days
QuoteTTL == 60
HistTTL == 3600
MCSeed == 42
Annual == 365
SqrtAnnual == 19
DefaultRate == 500
DefaultExpiry == 30
DefaultThreshold == 50
NoiseStd == 50

Scale == 100 * 100

\* the values a widget or an upstream service can hand to the script
RateChoices == {0, DefaultRate}
ThresholdChoices == {0, DefaultThreshold}
QuotePrices == {50000, 50800}
ClosePrices == {50000, 50500}
RowChoices == 2..MaxRows
DaysSimChoices == 1..MaxDaysSim
NumSimChoices == 1..MaxNumSim
LookbackChoices == 2..MaxLookback
\* operands of the classification taken on its own, around the points where
\* the deviation meets the threshold
ObservedChoices == {0, 49749, 49750, 50000, 50250, 50251}
TheoreticalChoices == {0, 50000, 50250}
ThresholdRange == {-DefaultThreshold, 0, DefaultThreshold, 2 * DefaultThreshold}
Histories == UNION {[1..(n + 1) -> ClosePrices] : n \in RowChoices}

\* ------------------------------------------------------------ arithmetic
Min(a, b) == IF a < b THEN a ELSE b

RECURSIVE SumSeq(_)
SumSeq(s) == IF s = <<>> THEN 0 ELSE Head(s) + SumSeq(Tail(s))

RECURSIVE ISqrtFrom(_, _)
ISqrtFrom(n, k) == IF (k + 1) * (k + 1) > n THEN k ELSE ISqrtFrom(n, k + 1)

ISqrt(n) == ISqrtFrom(n, 0)

\* math.exp / np.exp on a fixed-point argument: exp(0) is exactly 1
Exp(x) == Scale + x + (x * x) \div (2 * Scale)

\* a percentage kept as the exact quotient num/den (den > 0), in percent
Pct(n, d) == [num |-> n * 100, den |-> d]

\* comparisons of a percentage with a threshold counted in 1/Scale
PctGT(p, thr) == p.num * 100 > thr * p.den
PctLT(p, thr) == p.num * 100 < thr * p.den

\* ----------------------------------------------------- returns estimator
PctChange(close) ==
    [i \in 1..(Len(close) - 1) |->
        ((close[i + 1] - close[i]) * Scale) \div close[i]]

\* download_btc_data: the frame after pct_change() and dropna()
BtcFrame(raw) == [Close |-> Tail(raw), Returns |-> PctChange(raw)]

Mean(s) == SumSeq(s) \div Len(s)

Std(s) ==
    LET m == Mean(s)
        sq == [i \in 1..Len(s) |-> (s[i] - m) * (s[i] - m)]
    IN  ISqrt(SumSeq(sq) \div (Len(s) - 1))

EstimateMu(frame) == Mean(frame.Returns) * Annual
EstimateSigma(frame) == Std(frame.Returns) * SqrtAnnual

\* ------------------------------------------------------- st.cache_data
NoEntry == [present |-> FALSE, value |-> 0, age |-> 0]
NoFrame == [present |-> FALSE, value |-> <<>>, age |-> 0]

CacheHit(entry, ttl) == entry.present /\ entry.age < ttl

CacheStoreOnlyPrices(entry, v) ==
    IF v = 0 THEN NoEntry ELSE [present |-> TRUE, value |-> v, age |-> 0]

CacheStore(entry, v) == [present |-> TRUE, value |-> v, age |-> 0]

\* an entry after d more seconds; ages past the TTL are all alike
Aged(entry, d, ttl) ==
    IF entry.present THEN [entry EXCEPT !.age = Min(entry.age + d, ttl)]
    ELSE entry

\* the hour-long entry, kept at the resolution of its TTL: it is fresh until
\* a pause of a whole TTL has passed
AgedCoarse(entry, d, ttl) ==
    IF entry.present /\ d >= ttl THEN [entry EXCEPT !.age = ttl] ELSE entry

\* get_spot_price / get_future_price body: the HTTP exchange either raises,
\* answers without a price, or answers with a price
FetchOutcomes ==
    {[kind |-> "raise", price |-> 0], [kind |-> "noprice", price |-> 0]}
        \cup {[kind |-> "price", price |-> p] : p \in QuotePrices}

\* the value the function returns: 0 from the except branch, float(0) when
\* the answer carries no price, the price otherwise
FetchResult(outcome) ==
    IF outcome.kind = "price" THEN outcome.price ELSE 0

\* ------------------------------------------------------- global generator
NpRandomSeedSkipped(cur, seed) == cur

NpRandomSeed(cur, seed) == seed % RngMod

RngNext(s) == (5 * s + 3) % RngMod

\* the variate read off a generator state
Variate(s) == (s % 5) - 2

RECURSIVE RngAdvance(_, _)
RngAdvance(s, n) == IF n = 0 THEN s ELSE RngAdvance(RngNext(s), n - 1)

\* np.random.standard_normal(n): n variates, one generator step each
StandardNormal(s, n) == [i \in 1..n |-> Variate(RngAdvance(s, i))]

\* np.random.normal(0, 0.005, size=n)
Normal(s, n) == [i \in 1..n |-> NoiseStd * Variate(RngAdvance(s, i))]

\* ------------------------------------------------------------- pricing
TheoreticalFuture(spot, r, days) == (spot * Exp((r * days) \div Annual)) \div Scale

DiffPct(future, theoretical) ==
    IF theoretical # 0 THEN Pct(future - theoretical, theoretical)
    ELSE Pct(0, 1)

ClassifyInclusive(p, thr) ==
    IF ~PctLT(p, thr) THEN "OVERPRICED"
    ELSE IF ~PctGT(p, -thr) THEN "UNDERPRICED"
    ELSE "NEUTRAL"

Classify(p, thr) ==
    IF PctGT(p, thr) THEN "OVERPRICED"
    ELSE IF PctLT(p, -thr) THEN "UNDERPRICED"
    ELSE "NEUTRAL"

\* ----------------------------------------------------------- Monte Carlo
ExponentNoSigma(m, s, z) ==
    (m - (s * s) \div (2 * Scale)) \div Annual + (Scale * z) \div SqrtAnnual

\* (mu - 0.5 * sigma**2) * dt + sigma * np.sqrt(dt) * z
Exponent(m, s, z) ==
    (m - (s * s) \div (2 * Scale)) \div Annual + (s * z) \div SqrtAnnual

GbmStep(prev, m, s, z) == (prev * Exp(Exponent(m, s, z))) \div Scale

RowWrittenOffByOne(tt) == tt

\* the row the loop body assigns: simulations[t] is row t + 1 of the sequence
RowWritten(tt) == tt + 1

\* np.zeros((days_sim + 1, num_simulations)); simulations[0] = spot_init
InitialMatrix(days, paths, spot) ==
    [row \in 1..(days + 1) |-> [j \in 1..paths |-> IF row = 1 THEN spot ELSE 0]]

\* ------------------------------------------------------------- backtest
\* Series.tail(n): the last n rows, all of them when there are fewer
SeriesTail(s, n) ==
    IF Len(s) <= n THEN s ELSE SubSeq(s, Len(s) - n + 1, Len(s))

FutTheoreticalHist(spot_hist, r, days) ==
    [i \in 1..Len(spot_hist) |-> TheoreticalFuture(spot_hist[i], r, days)]

FutRealHist(theo, noise) ==
    [i \in 1..Len(theo) |-> (theo[i] * (Scale + noise[i])) \div Scale]

DiffHist(real, theo) ==
    [i \in 1..Len(theo) |-> Pct(real[i] - theo[i], theo[i])]

Aciertos(dh, thr) ==
    Cardinality({i \in 1..Len(dh) : PctGT(dh[i], thr) \/ PctLT(dh[i], -thr)})

VARIABLES
    pc, error,
    spot_cache, future_cache, btc_cache, rng,
    risk_free_rate, alert_threshold_pct, email_alerts,
    btc_data, mu, sigma,
    spot_price, future_price, spot_fetched, future_fetched,
    theoretical_future, diff_pct, signal, alert_called,
    days_sim, num_simulations, simulations, t,
    lookback_days, ruido, diff_hist, aciertos

cacheVars == <<spot_cache, future_cache, btc_cache>>
inputVars == <<risk_free_rate, alert_threshold_pct, email_alerts>>
histVars == <<btc_data, mu, sigma>>
quoteVars == <<spot_price, future_price, spot_fetched, future_fetched>>
evalVars == <<theoretical_future, diff_pct, signal, alert_called>>
simVars == <<days_sim, num_simulations, simulations, t>>
backVars == <<lookback_days, ruido, diff_hist, aciertos>>

vars == <<pc, error, cacheVars, rng, inputVars, histVars, quoteVars,
          evalVars, simVars, backVars>>

NoFrameData == [Close |-> <<>>, Returns |-> <<>>]

Init ==
    /\ pc = "idle"
    /\ spot_cache = NoEntry /\ future_cache = NoEntry /\ btc_cache = NoFrame
    /\ rng \in 0..(RngMod - 1)
    /\ error = "none"
    /\ risk_free_rate = 0 /\ alert_threshold_pct = 0 /\ email_alerts = FALSE
    /\ btc_data = NoFrameData /\ mu = 0 /\ sigma = 0
    /\ spot_price = 0 /\ future_price = 0
    /\ spot_fetched = FALSE /\ future_fetched = FALSE
    /\ theoretical_future = 0 /\ diff_pct = Pct(0, 1)
    /\ signal = "NONE" /\ alert_called = FALSE
    /\ days_sim = 0 /\ num_simulations = 0 /\ simulations = <<>> /\ t = 0
    /\ lookback_days = 0 /\ ruido = <<>> /\ diff_hist = <<>> /\ aciertos = 0

\* ---------------------------------------------------------------- actions
\* lines 16-37: the sidebar widgets, download_btc_data() behind its cache,
\* mu and sigma
Rerun ==
    /\ pc = "idle"
    /\ \E r \in RateChoices, thr \in ThresholdChoices, mail \in BOOLEAN :
        /\ risk_free_rate' = r
        /\ alert_threshold_pct' = thr
        /\ email_alerts' = mail
    /\ IF CacheHit(btc_cache, HistTTL)
       THEN /\ btc_data' = btc_cache.value
            /\ UNCHANGED btc_cache
       ELSE \E raw \in Histories :
            /\ btc_data' = BtcFrame(raw)
            /\ btc_cache' = [present |-> TRUE, value |-> BtcFrame(raw), age |-> 0]
    /\ mu' = EstimateMu(btc_data')
    /\ sigma' = EstimateSigma(btc_data')
    /\ pc' = "spot"
    /\ UNCHANGED <<error, spot_cache, future_cache, rng, quoteVars, evalVars,
                   simVars, backVars>>

\* line 78: spot_price = get_spot_price()
GetSpotPrice ==
    /\ pc = "spot"
    /\ IF CacheHit(spot_cache, QuoteTTL)
       THEN /\ spot_price' = spot_cache.value
            /\ spot_fetched' = FALSE
            /\ UNCHANGED spot_cache
       ELSE \E o \in FetchOutcomes :
            /\ spot_price' = FetchResult(o)
            /\ spot_fetched' = TRUE
            /\ spot_cache' = CacheStore(spot_cache, FetchResult(o))
    /\ pc' = "future"
    /\ UNCHANGED <<error, future_cache, btc_cache, rng, inputVars, histVars,
                   future_price, future_fetched, evalVars, simVars, backVars>>

\* line 79: future_price = get_future_price()
GetFuturePrice ==
    /\ pc = "future"
    /\ IF CacheHit(future_cache, QuoteTTL)
       THEN /\ future_price' = future_cache.value
            /\ future_fetched' = FALSE
            /\ UNCHANGED future_cache
       ELSE \E o \in FetchOutcomes :
            /\ future_price' = FetchResult(o)
            /\ future_fetched' = TRUE
            /\ future_cache' = CacheStore(future_cache, FetchResult(o))
    /\ pc' = "evaluate"
    /\ UNCHANGED <<error, spot_cache, btc_cache, rng, inputVars, histVars,
                   spot_price, spot_fetched, evalVars, simVars, backVars>>

\* lines 85-103: theoretical price, difference and the signal branch.  The
\* name send_email_alert is bound at line 174, after this point of the run.
Evaluate ==
    /\ pc = "evaluate"
    /\ theoretical_future' =
          TheoreticalFuture(spot_price, risk_free_rate, DefaultExpiry)
    /\ diff_pct' = DiffPct(future_price, theoretical_future')
    /\ signal' = Classify(diff_pct', alert_threshold_pct)
    /\ IF signal' \in {"OVERPRICED", "UNDERPRICED"} /\ email_alerts
       THEN /\ alert_called' = TRUE
            /\ error' = "NameError"
            /\ pc' = "crashed"
       ELSE /\ alert_called' = FALSE
            /\ error' = error
            /\ pc' = "simulate"
    /\ UNCHANGED <<cacheVars, rng, inputVars, histVars, quoteVars, simVars,
                   backVars>>

\* lines 108-116: the sliders, the seed, the zero matrix and its row 0
SimSetup ==
    /\ pc = "simulate"
    /\ \E days \in DaysSimChoices, paths \in NumSimChoices :
        /\ days_sim' = days
        /\ num_simulations' = paths
        /\ simulations' = InitialMatrix(days, paths, spot_price)
    /\ rng' = NpRandomSeed(rng, MCSeed)
    /\ t' = 1
    /\ pc' = "simloop"
    /\ UNCHANGED <<error, cacheVars, inputVars, histVars, quoteVars, evalVars,
                   backVars>>

\* lines 118-120: one pass of the loop body
SimStep ==
    /\ pc = "simloop"
    /\ t <= days_sim
    /\ LET z == StandardNormal(rng, num_simulations)
       IN  simulations' =
             [simulations EXCEPT ![RowWritten(t)] =
                [j \in 1..num_simulations |->
                    GbmStep(simulations[t][j], mu, sigma, z[j])]]
    /\ rng' = RngAdvance(rng, num_simulations)
    /\ t' = t + 1
    /\ pc' = IF t = days_sim THEN "backtest" ELSE "simloop"
    /\ UNCHANGED <<error, cacheVars, inputVars, histVars, quoteVars, evalVars,
                   days_sim, num_simulations, backVars>>

\* lines 144-170: the lookback widget, the button and the backtest
Backtest ==
    /\ pc = "backtest"
    /\ \E days \in LookbackChoices, pressed \in BOOLEAN :
        /\ lookback_days' = days
        /\ IF ~pressed
           THEN /\ pc' = "done"
                /\ UNCHANGED <<error, rng, ruido, diff_hist, aciertos>>
           ELSE LET spot_hist == SeriesTail(btc_data.Close, days)
                    theo == FutTheoreticalHist(spot_hist, risk_free_rate,
                                               DefaultExpiry)
                    noise == Normal(rng, days)
                IN  /\ ruido' = noise
                    /\ rng' = RngAdvance(rng, days)
                    /\ IF Len(theo) # Len(noise)
                       THEN /\ error' = "ValueError"
                            /\ pc' = "crashed"
                            /\ UNCHANGED <<diff_hist, aciertos>>
                       ELSE /\ diff_hist' = DiffHist(FutRealHist(theo, noise), theo)
                            /\ aciertos' = Aciertos(diff_hist', alert_threshold_pct)
                            /\ pc' = "done"
                            /\ error' = error
    /\ UNCHANGED <<cacheVars, inputVars, histVars, quoteVars, evalVars, simVars>>

\* the run is over (to its last line or by an exception); the session waits
\* for the next interaction
Finish ==
    /\ pc \in {"done", "crashed"}
    /\ pc' = "idle"
    /\ error' = "none"
    /\ risk_free_rate' = 0 /\ alert_threshold_pct' = 0 /\ email_alerts' = FALSE
    /\ btc_data' = NoFrameData /\ mu' = 0 /\ sigma' = 0
    /\ spot_price' = 0 /\ future_price' = 0
    /\ spot_fetched' = FALSE /\ future_fetched' = FALSE
    /\ theoretical_future' = 0 /\ diff_pct' = Pct(0, 1)
    /\ signal' = "NONE" /\ alert_called' = FALSE
    /\ days_sim' = 0 /\ num_simulations' = 0 /\ simulations' = <<>> /\ t' = 0
    /\ lookback_days' = 0 /\ ruido' = <<>> /\ diff_hist' = <<>> /\ aciertos' = 0
    /\ UNCHANGED <<cacheVars, rng>>

\* d seconds pass between two reruns
Tick ==
    /\ pc = "idle"
    /\ \E d \in {TickStep, HistTTL} :
        /\ spot_cache' = Aged(spot_cache, d, QuoteTTL)
        /\ future_cache' = Aged(future_cache, d, QuoteTTL)
        /\ btc_cache' = AgedCoarse(btc_cache, d, HistTTL)
    /\ UNCHANGED <<pc, error, rng, inputVars, histVars, quoteVars, evalVars,
                   simVars, backVars>>

Next ==
    \/ Rerun
    \/ GetSpotPrice
    \/ GetFuturePrice
    \/ Evaluate
    \/ SimSetup
    \/ SimStep
    \/ Backtest
    \/ Finish
    \/ Tick

Spec == Init /\ [][Next]_vars

\* ------------------------------------------- the classification on its own
\* lines 90-103 as a function of observed price, theoretical price and
\* threshold, over operands the quotes of a run need not produce
ClassifierInit ==
    /\ pc = "classify"
    /\ future_price \in ObservedChoices
    /\ theoretical_future \in TheoreticalChoices
    /\ alert_threshold_pct \in ThresholdRange
    /\ spot_cache = NoEntry /\ future_cache = NoEntry /\ btc_cache = NoFrame
    /\ rng = 0
    /\ error = "none"
    /\ risk_free_rate = 0 /\ email_alerts = FALSE
    /\ btc_data = NoFrameData /\ mu = 0 /\ sigma = 0
    /\ spot_price = 0
    /\ spot_fetched = FALSE /\ future_fetched = FALSE
    /\ diff_pct = Pct(0, 1)
    /\ signal = "NONE" /\ alert_called = FALSE
    /\ days_sim = 0 /\ num_simulations = 0 /\ simulations = <<>> /\ t = 0
    /\ lookback_days = 0 /\ ruido = <<>> /\ diff_hist = <<>> /\ aciertos = 0

ClassifierCall ==
    /\ pc = "classify"
    /\ diff_pct' = DiffPct(future_price, theoretical_future)
    /\ signal' = Classify(diff_pct', alert_threshold_pct)
    /\ pc' = "classified"
    /\ UNCHANGED <<error, cacheVars, rng, inputVars, histVars, quoteVars,
                   theoretical_future, alert_called, simVars, backVars>>

SpecClassifier == ClassifierInit /\ [][ClassifierCall]_vars

\* ------------------------------------------------------ stages of a run
\* lines 85-103 have run (to the end or into the exception)
Evaluated == pc \in {"simulate", "simloop", "backtest", "done", "crashed"}

\* the signal has been decided, in a run or by the classification on its own
Classified == Evaluated \/ pc = "classified"

\* the loop of lines 118-120 has finished
Simulated == simulations # <<>> /\ pc \in {"backtest", "done", "crashed"}

\* the button branch of lines 146-170 was entered
BacktestRan == ruido # <<>>

RunOver == pc \in {"done", "crashed"}

AlertSignals == {"OVERPRICED", "UNDERPRICED"}

\* the matrix the loop produces from generator state g on, row by row
RECURSIVE PathsFrom(_, _, _, _, _, _)
PathsFrom(acc, g, m, s, paths, remaining) ==
    IF remaining = 0 THEN acc
    ELSE PathsFrom(
            Append(acc, [j \in 1..paths |->
                GbmStep(acc[Len(acc)][j], m, s, Variate(RngAdvance(g, j)))]),
            RngAdvance(g, paths), m, s, paths, remaining - 1)

SeededMatrix(spot, m, s, days, paths) ==
    PathsFrom(<<[j \in 1..paths |-> spot]>>, MCSeed % RngMod, m, s, paths, days)

\* ------------------------------------------------------------------ C1
\* C1: when the spot fetch or the futures fetch yields no price, the
\* evaluation shows no mispricing signal and attempts no notification.
C1_NoSignalWithoutBothPrices ==
    (Evaluated /\ (spot_price = 0 \/ future_price = 0))
        => (signal = "NONE" /\ ~alert_called)

\* ------------------------------------------------------------------ C2
\* C2: with a theoretical futures price of 0 or below the classification
\* fails: it yields neither diff_pct = 0 nor any signal.
C2_NonPositiveTheoreticalFails ==
    (Evaluated /\ theoretical_future <= 0)
        => (signal = "NONE" /\ diff_pct.num # 0)

\* ------------------------------------------------------------------ C3
\* C3: a run whose signal is OVERPRICED or UNDERPRICED with alerts enabled
\* attempts the notification and still reaches the Monte Carlo simulation
\* and the backtest stage.
C3_NotificationNeverFatal ==
    (RunOver /\ signal \in AlertSignals /\ email_alerts)
        => (alert_called /\ error # "NameError" /\ simulations # <<>>
            /\ lookback_days # 0)

\* ------------------------------------------------------------------ C4
\* C4: for observed >= 0, theoretical > 0 and threshold >= 0 the signal is
\* OVERPRICED exactly when (observed - theoretical) / theoretical * 100
\* exceeds the threshold, UNDERPRICED exactly when it is below minus the
\* threshold, NEUTRAL otherwise; observed = theoretical gives 0 and NEUTRAL.
C4_SignalMatchesDeviation ==
    (Classified /\ future_price >= 0 /\ theoretical_future > 0
        /\ alert_threshold_pct >= 0)
    => LET d == future_price - theoretical_future
           over == d * Scale > alert_threshold_pct * theoretical_future
           under == d * Scale < (-alert_threshold_pct) * theoretical_future
       IN  /\ signal = "OVERPRICED" <=> over
           /\ signal = "UNDERPRICED" <=> under
           /\ signal = "NEUTRAL" <=> (~over /\ ~under)
           /\ diff_pct = Pct(d, theoretical_future)
           /\ d = 0 => (diff_pct.num = 0 /\ signal = "NEUTRAL")

C4_Witness ==
    /\ Classified
    /\ theoretical_future > 0
    /\ future_price = theoretical_future
    /\ alert_threshold_pct = 0
    /\ diff_pct.num = 0
    /\ signal = "NEUTRAL"

\* ------------------------------------------------------------------ C5
\* C5: the finished simulation matrix is the one the fixed seed gives for
\* spot0, mu, sigma, horizon and path count, whatever state the generator
\* was left in by earlier runs, draws or backtests.
C5_SimulationDeterministic ==
    Simulated
        => simulations =
             SeededMatrix(spot_price, mu, sigma, days_sim, num_simulations)

C5_Witness ==
    /\ Simulated
    /\ sigma > 0
    /\ spot_price > 0
    /\ days_sim = MaxDaysSim
    /\ num_simulations = MaxNumSim
    /\ simulations[MaxDaysSim + 1][1] # simulations[MaxDaysSim + 1][MaxNumSim]

\* ------------------------------------------------------------------ C6
\* C6: the backtest noise is not the sequence fixed by the Monte Carlo seed
\* and the number of variates the simulation consumed.
C6_NoiseIndependentOfSeed ==
    BacktestRan
        => ruido # Normal(RngAdvance(MCSeed % RngMod, days_sim * num_simulations),
                          lookback_days)

\* ------------------------------------------------------------------ C7
\* C7: a backtest run completes with a series of exactly lookback_days
\* entries and a hit count between 0 and that length, for every number of
\* historical closes.
C7_BacktestSeriesLength ==
    (BacktestRan /\ RunOver)
        => (pc = "done" /\ Len(diff_hist) = lookback_days
            /\ aciertos \in 0..lookback_days)

\* ------------------------------------------------------------------ C8
\* C8: row 0 of the simulation matrix equals spot0 on every path, from the
\* moment it is set, through every pass of the loop and afterwards.
C8_RowZeroIsSpot ==
    simulations # <<>>
        => /\ Len(simulations) = days_sim + 1
           /\ \A j \in 1..num_simulations : simulations[1][j] = spot_price

C8_Witness ==
    /\ Simulated
    /\ days_sim = MaxDaysSim
    /\ spot_price > 0
    /\ simulations[2][1] # spot_price
    /\ simulations[MaxDaysSim + 1][1] # spot_price

\* ------------------------------------------------------------------ C9
\* C9: with mu = 0 and sigma = 0 every entry of the finished matrix equals
\* spot0, and the growth factor is exactly 1 for every variate.
C9_ZeroDriftZeroVolConstant ==
    (Simulated /\ mu = 0 /\ sigma = 0)
        => /\ \A row \in 1..(days_sim + 1) : \A j \in 1..num_simulations :
                simulations[row][j] = spot_price
           /\ \A z \in -2..2 : GbmStep(spot_price, mu, sigma, z) = spot_price

C9_Witness ==
    /\ Simulated
    /\ mu = 0 /\ sigma = 0
    /\ spot_price > 0
    /\ days_sim = MaxDaysSim
    /\ num_simulations = MaxNumSim

\* ----------------------------------------------------------------- C10
\* one call of get_spot_price: a hit returns the entry's value without a
\* fetch; a miss fetches and the result becomes the entry
C10_SpotCall ==
    (pc = "spot" /\ pc' = "future")
        => IF spot_cache.present /\ spot_cache.age < QuoteTTL
           THEN spot_price' = spot_cache.value /\ ~spot_fetched'
                /\ spot_cache' = spot_cache
           ELSE spot_fetched'
                /\ spot_cache' = [present |-> TRUE, value |-> spot_price', age |-> 0]

C10_FutureCall ==
    (pc = "future" /\ pc' = "evaluate")
        => IF future_cache.present /\ future_cache.age < QuoteTTL
           THEN future_price' = future_cache.value /\ ~future_fetched'
                /\ future_cache' = future_cache
           ELSE future_fetched'
                /\ future_cache' =
                     [present |-> TRUE, value |-> future_price', age |-> 0]

\* C10: every call of get_spot_price and of get_future_price is served from
\* an entry younger than the TTL when there is one, a cached 0 like a cached
\* price, and fetches and stores its result, 0 or price, when there is none.
C10_FailedFetchCached == [][C10_SpotCall /\ C10_FutureCall]_vars

C10_Witness ==
    /\ pc = "evaluate"
    /\ spot_price = 0 /\ ~spot_fetched
    /\ spot_cache.present /\ spot_cache.value = 0 /\ spot_cache.age = TickStep
    /\ future_price = 0 /\ ~future_fetched

====
